---- MODULE Spec2Model ----
(***************************************************************************)
(* Model of misconfig-configvaluerangechecker (src/main.py): main() loads   *)
(* a configuration document and a rule list, ConfigValueRangeChecker       *)
(* .validate_config() checks every rule against the document, and main()   *)
(* turns the verdict into the process exit status.                         *)
(*                                                                         *)
(* Python values are records [kind, half]: kind is type(v).__name__ and    *)
(* half is twice the numeric value (so the float 0.5 is half = 1 and the   *)
(* int 1 is half = 2; True is half = 2, False is half = 0).  Values that   *)
(* are not numbers carry half = 0.                                         *)
(***************************************************************************)
EXTENDS Integers, Sequences, FiniteSets, TLC

\* ---------------------------------------------------------------- bounds
\* Largest integer that occurs as a configuration value or as a rule bound.
MaxVal == 2
\* Longest rule list of the whole-run specification.
MaxRules == 2

\* ---------------------------------------------------------------- values
None == [kind |-> "NoneType", half |-> 0]
PyInt(n) == [kind |-> "int", half |-> 2 * n]
PyFloat(h) == [kind |-> "float", half |-> h]
PyBool(b) == [kind |-> "bool", half |-> IF b THEN 2 ELSE 0]
PyStr == [kind |-> "str", half |-> 0]
PyList == [kind |-> "list", half |-> 0]

\* A key the document does not hold (not a Python value: dict.get's miss).
Missing == [kind |-> "missing", half |-> 0]

Params == {"port", "name"}

\* The integers, the floats 0.5 and 1.0, both booleans, a string, a list, null.
Ints == {PyInt(n) : n \in 0..MaxVal}
Floats == {PyFloat(h) : h \in 1..2}
Bools == {PyBool(b) : b \in BOOLEAN}
ConfigValues == Ints \cup Floats \cup Bools \cup {PyStr, PyList, None}

\* A decoded configuration document: a mapping (items gives each key's value,
\* Missing for a key the mapping lacks), JSON null / an empty YAML file
\* (NoneType), or a non-empty top-level sequence (list).
Mapping(items) == [kind |-> "dict", items |-> items]
NullDocument == [kind |-> "NoneType", items |-> [p \in Params |-> Missing]]
ListDocument == [kind |-> "list", items |-> [p \in Params |-> Missing]]

\* A decoded rule record: a JSON object (mapping = TRUE; type "" and
\* min/max None stand for an absent key, as rule.get returns None for it), or
\* a record that is no object (mapping = FALSE), e.g. a string or a number.
Rule(parameter, type, min, max) ==
    [mapping |-> TRUE, parameter |-> parameter, type |-> type, min |-> min, max |-> max]
NotARule == [mapping |-> FALSE, parameter |-> "", type |-> "", min |-> None, max |-> None]

\* ------------------------------------------------------------ diagnostics
\* One logging call: its level, what it reports, and the parameter, the
\* expected type and the observed type the message names ("" when none).
Diag(severity, kind, parameter, expected, actual) ==
    [severity |-> severity, kind |-> kind, parameter |-> parameter,
     expected |-> expected, actual |-> actual]

\* if not self.config_data / if not self.rules_data: Python truthiness.
Truthy(document) ==
    \/ document.kind = "list"
    \/ document.kind = "dict" /\ \E p \in Params : document.items[p] # Missing

\* isinstance(value, int): bool is a subclass of int in Python.
IsInstanceInt(value) == value.kind \in {"int", "bool"}
\* Mutant: a "float" rule that takes floats only.
IsInstanceFloatOnly(value) == value.kind = "float"
\* isinstance(value, (int, float))
IsInstanceNumber(value) == value.kind \in {"int", "float", "bool"}

\* The type validation of lines 115-139: TRUE when the branch of data_type
\* logs "incorrect type" and continues.  A data_type outside the five names
\* (or None) matches no branch.
TypeCheckFails(data_type, value) ==
    CASE data_type = "integer" -> ~IsInstanceInt(value)
      [] data_type = "float" -> ~IsInstanceNumber(value)
      [] data_type = "string" -> value.kind # "str"
      [] data_type = "boolean" -> value.kind # "bool"
      [] data_type = "list" -> value.kind # "list"
      [] OTHER -> FALSE

\* value < bound / value > bound raise TypeError unless both are numbers.
Comparable(value, bound) == IsInstanceNumber(value) /\ IsInstanceNumber(bound)
\* Mutant: a value equal to its minimum counts as below it.
LessOrEqual(value, bound) == value.half <= bound.half
Less(value, bound) == value.half < bound.half
Greater(value, bound) == value.half > bound.half

\* The range validation of lines 142-148 for a value that passed the type
\* validation: the diagnostics logged, and whether a comparison raised (the
\* except clause of lines 152-154 then logs and the rest is skipped).
RangeCheck(parameter, value, min_value, max_value) ==
    LET belowD == Diag("ERROR", "BelowMin", parameter, "", "")
        aboveD == Diag("ERROR", "AboveMax", parameter, "", "")
        faultD == Diag("ERROR", "Fault", parameter, "", "")
        minRaises == min_value # None /\ ~Comparable(value, min_value)
        maxRaises == max_value # None /\ ~Comparable(value, max_value)
        below == IF min_value # None /\ Less(value, min_value) THEN <<belowD>> ELSE <<>>
        above == IF max_value # None /\ Greater(value, max_value) THEN <<aboveD>> ELSE <<>>
    IN  IF minRaises THEN <<faultD>>
        ELSE IF maxRaises THEN below \o <<faultD>>
        ELSE below \o above

\* The body of the for loop (lines 107-154) for one rule that is a mapping:
\* the diagnostics it logs, in order.
ValidateRule(config_data, rule) ==
    LET parameter == rule.parameter
        data_type == rule.type
    IN  IF config_data.kind # "dict"
        THEN \* self.config_data.get raises AttributeError, caught at line 152
             <<Diag("ERROR", "Fault", parameter, "", "")>>
        ELSE LET got == config_data.items[parameter]
                 value == IF got = Missing THEN None ELSE got
             IN  IF value = None
                 THEN <<Diag("WARNING", "NotFound", parameter, "", "")>>
                 ELSE IF TypeCheckFails(data_type, value)
                 THEN <<Diag("ERROR", "TypeMismatch", parameter, data_type, value.kind)>>
                 ELSE IF data_type \in {"integer", "float"}
                 THEN RangeCheck(parameter, value, rule.min, rule.max)
                 ELSE <<>>

\* is_valid = False is assigned exactly where logging.error is called.
HasError(diags) == \E k \in 1..Len(diags) : diags[k].severity = "ERROR"


\* ----------------------------------------------------------------- inputs
Extensions == {".json", ".yaml", ".yml", ".txt"}
Supported == {".json", ".yaml", ".yml"}
Types == {"integer", "float", "string", "boolean", "list"}

\* Rule bounds: absent, an integer, the float 0.5, or a string (a JSON rules
\* file may hold any JSON value under "min"/"max").
Bounds == {None} \cup Ints \cup {PyFloat(1), PyStr}

\* Inputs of the single-rule specification: every document over Params and
\* every rule record, in rule lists of at most one record.
RuleDocuments ==
    {Mapping(items) : items \in [Params -> ConfigValues \cup {Missing}]}
        \cup {NullDocument, ListDocument}
RuleRecords ==
    {Rule(p, t, mn, mx) : p \in Params, t \in Types \cup {""}, mn \in Bounds, mx \in Bounds}
        \cup {NotARule}
SingleRuleLists == {<<>>} \cup {<<r>> : r \in RuleRecords}

\* Inputs of the whole-run specification: fewer values and rules, in rule
\* lists of up to MaxRules records.
SeqValues == {Missing, PyInt(0), PyBool(TRUE)}
SeqDocuments ==
    {Mapping(items) : items \in [Params -> SeqValues]} \cup {NullDocument, ListDocument}
SeqRecords ==
    {Rule(p, t, mn, None) : p \in Params, t \in {"integer", "boolean", "string"},
                            mn \in {None, PyInt(1), PyStr}}
        \cup {NotARule}
SeqRuleLists == UNION {[1..n -> SeqRecords] : n \in 0..MaxRules}

\* ------------------------------------------------------------------ state
VARIABLES
    pc,             \* where main() is: "main", "load_config", "load_rules",
                    \* "validate", "loop", "report", "exited", "crashed"
    config_data,    \* self.config_data
    rules_data,     \* self.rules_data
    config_loaded,  \* load_config() returned True
    rules_loaded,   \* load_rules() returned True
    invoked,        \* validate_config() has been called
    i,              \* position of the for loop in rules_data (1-based)
    is_valid,       \* the local is_valid of validate_config
    verdict,        \* what validate_config did: "none" (not finished),
                    \* "True", "False" (returned), "raised" (an exception left it)
    log,            \* every logging call so far, in order
    exit_code       \* the process exit status, -1 while main() runs

vars == <<pc, config_data, rules_data, config_loaded, rules_loaded, invoked,
          i, is_valid, verdict, log, exit_code>>

\* No rules loaded: self.rules_data = None.
NoRules == <<>>

Init ==
    /\ pc = "main"
    /\ config_data = NullDocument
    /\ rules_data = NoRules
    /\ config_loaded = FALSE
    /\ rules_loaded = FALSE
    /\ invoked = FALSE
    /\ i = 0
    /\ is_valid = TRUE
    /\ verdict = "none"
    /\ log = <<>>
    /\ exit_code = -1

\* sys.exit(1) after logging one error.
ExitWithError(kind) ==
    /\ log' = Append(log, Diag("ERROR", kind, "", "", ""))
    /\ pc' = "exited"
    /\ exit_code' = 1

\* main(), lines 178-190: the os.path.exists checks on both paths.
main_check_files ==
    /\ pc = "main"
    /\ \E config_exists \in BOOLEAN, rules_exists \in BOOLEAN :
         IF ~config_exists THEN ExitWithError("ConfigFileNotFound")
         ELSE IF ~rules_exists THEN ExitWithError("RulesFileNotFound")
         ELSE /\ pc' = "load_config"
              /\ UNCHANGED <<log, exit_code>>
    /\ UNCHANGED <<config_data, rules_data, config_loaded, rules_loaded, invoked,
                   i, is_valid, verdict>>

\* load_config() and main's test of its result (lines 30-61, 192-193).  The
\* file's extension and what decoding it gives are the inputs.
load_config(Documents) ==
    /\ pc = "load_config"
    /\ \/ \* open() fails: the file vanished since the check, or cannot be read
          /\ \E e \in {"FileNotFoundError", "OSError"} : ExitWithError("ConfigLoadFailure")
          /\ UNCHANGED <<config_data, config_loaded>>
       \/ \* unsupported extension: config_data stays None
          /\ \E ext \in Extensions \ Supported : ExitWithError("ConfigLoadFailure")
          /\ UNCHANGED <<config_data, config_loaded>>
       \/ \* json.JSONDecodeError / yaml.YAMLError
          /\ \E ext \in Supported : ExitWithError("ConfigLoadFailure")
          /\ UNCHANGED <<config_data, config_loaded>>
       \/ \E ext \in Supported, document \in Documents :
            /\ config_data' = document
            /\ config_loaded' = TRUE
            /\ log' = Append(log, Diag("INFO", "ConfigLoaded", "", "", ""))
            /\ pc' = "load_rules"
            /\ UNCHANGED exit_code
    /\ UNCHANGED <<rules_data, rules_loaded, invoked, i, is_valid, verdict>>

\* load_rules() and main's test of its result (lines 64-84, 195-196).
load_rules(RuleLists) ==
    /\ pc = "load_rules"
    /\ \/ /\ \E e \in {"FileNotFoundError", "JSONDecodeError", "OSError"} :
               ExitWithError("RulesLoadFailure")
          /\ UNCHANGED <<rules_data, rules_loaded>>
       \/ \E rules \in RuleLists :
            /\ rules_data' = rules
            /\ rules_loaded' = TRUE
            /\ log' = Append(log, Diag("INFO", "RulesLoaded", "", "", ""))
            /\ pc' = "validate"
            /\ UNCHANGED exit_code
    /\ UNCHANGED <<config_data, config_loaded, invoked, i, is_valid, verdict>>

\* validate_config() up to the loop (lines 93-100).
validate_begin ==
    /\ pc = "validate"
    /\ invoked' = TRUE
    /\ IF ~Truthy(config_data)
       THEN /\ log' = Append(log, Diag("ERROR", "ConfigNotLoaded", "", "", ""))
            /\ verdict' = "False"
            /\ pc' = "report"
            /\ UNCHANGED <<i, is_valid>>
       ELSE IF rules_data = <<>>
       THEN /\ log' = Append(log, Diag("ERROR", "RulesNotLoaded", "", "", ""))
            /\ verdict' = "False"
            /\ pc' = "report"
            /\ UNCHANGED <<i, is_valid>>
       ELSE /\ is_valid' = TRUE
            /\ i' = 1
            /\ pc' = "loop"
            /\ UNCHANGED <<log, verdict>>
    /\ UNCHANGED <<config_data, rules_data, config_loaded, rules_loaded, exit_code>>

\* Mutant: the loop stops at the first rule that logs an error (break for
\* continue).
validate_rule_break ==
    /\ pc = "loop"
    /\ i <= Len(rules_data)
    /\ rules_data[i].mapping
    /\ LET diags == ValidateRule(config_data, rules_data[i])
       IN  /\ log' = log \o diags
           /\ is_valid' = (is_valid /\ ~HasError(diags))
           /\ i' = IF HasError(diags) THEN Len(rules_data) + 1 ELSE i + 1
    /\ UNCHANGED <<pc, config_data, rules_data, config_loaded, rules_loaded, invoked,
                   verdict, exit_code>>

\* One iteration of the for loop (lines 101-154) on a rule that is a mapping.
validate_rule ==
    /\ pc = "loop"
    /\ i <= Len(rules_data)
    /\ rules_data[i].mapping
    /\ LET diags == ValidateRule(config_data, rules_data[i])
       IN  /\ log' = log \o diags
           /\ is_valid' = (is_valid /\ ~HasError(diags))
    /\ i' = i + 1
    /\ UNCHANGED <<pc, config_data, rules_data, config_loaded, rules_loaded, invoked,
                   verdict, exit_code>>

\* rule.get (lines 102-105) is outside the try: on a record that is no
\* mapping AttributeError leaves validate_config and main; the interpreter
\* prints the traceback and exits with status 1.
validate_raise ==
    /\ pc = "loop"
    /\ i <= Len(rules_data)
    /\ ~rules_data[i].mapping
    /\ verdict' = "raised"
    /\ pc' = "crashed"
    /\ exit_code' = 1
    /\ UNCHANGED <<config_data, rules_data, config_loaded, rules_loaded, invoked,
                   i, is_valid, log>>

\* return is_valid (line 156).
validate_return ==
    /\ pc = "loop"
    /\ i > Len(rules_data)
    /\ verdict' = IF is_valid THEN "True" ELSE "False"
    /\ pc' = "report"
    /\ UNCHANGED <<config_data, rules_data, config_loaded, rules_loaded, invoked,
                   i, is_valid, log, exit_code>>

\* main(), lines 198-203.
main_report ==
    /\ pc = "report"
    /\ IF verdict = "True"
       THEN /\ log' = Append(log, Diag("INFO", "ConfigurationValid", "", "", ""))
            /\ exit_code' = 0
       ELSE /\ log' = Append(log, Diag("ERROR", "ConfigurationInvalid", "", "", ""))
            /\ exit_code' = 1
    /\ pc' = "exited"
    /\ UNCHANGED <<config_data, rules_data, config_loaded, rules_loaded, invoked,
                   i, is_valid, verdict>>

Validate == validate_begin \/ validate_rule \/ validate_raise \/ validate_return

\* Whole runs of main over rule lists of up to MaxRules records.
Next ==
    \/ main_check_files
    \/ load_config(SeqDocuments)
    \/ load_rules(SeqRuleLists)
    \/ Validate
    \/ main_report

Spec == Init /\ [][Next]_vars

\* Runs of main over every document and every single rule.
NextRule ==
    \/ main_check_files
    \/ load_config(RuleDocuments)
    \/ load_rules(SingleRuleLists)
    \/ Validate
    \/ main_report

SpecRule == Init /\ [][NextRule]_vars


\* ------------------------------------------------- validate_config, whole
\* validate_config as a function of its two inputs: what it returns (or
\* "raised") and the diagnostics it has logged by then.
RECURSIVE ValidateLoop(_, _, _, _, _)
ValidateLoop(config, rules, k, valid, diags) ==
    IF k > Len(rules)
    THEN [verdict |-> IF valid THEN "True" ELSE "False", diags |-> diags]
    ELSE IF ~rules[k].mapping
    THEN [verdict |-> "raised", diags |-> diags]
    ELSE LET d == ValidateRule(config, rules[k])
         IN  ValidateLoop(config, rules, k + 1, valid /\ ~HasError(d), diags \o d)

validate_config(config, rules) ==
    IF ~Truthy(config)
    THEN [verdict |-> "False", diags |-> <<Diag("ERROR", "ConfigNotLoaded", "", "", "")>>]
    ELSE IF rules = <<>>
    THEN [verdict |-> "False", diags |-> <<Diag("ERROR", "RulesNotLoaded", "", "", "")>>]
    ELSE ValidateLoop(config, rules, 1, TRUE, <<>>)

\* ------------------------------------------------------ reading the state
\* The diagnostics a rule produced, and all that validate_config logged.
RuleKinds == {"NotFound", "TypeMismatch", "BelowMin", "AboveMax", "Fault"}
ValidateKinds == RuleKinds \cup {"ConfigNotLoaded", "RulesNotLoaded"}
IsRuleDiag(d) == d.kind \in RuleKinds
IsValidateDiag(d) == d.kind \in ValidateKinds
RuleDiagnostics == SelectSeq(log, IsRuleDiag)
ValidateDiagnostics == SelectSeq(log, IsValidateDiag)
Kinds(diags) == {diags[k].kind : k \in 1..Len(diags)}
Count(diags, kind) == Cardinality({k \in 1..Len(diags) : diags[k].kind = kind})
Tuples(diags) ==
    {<<diags[k].parameter, diags[k].severity, diags[k].kind>> : k \in 1..Len(diags)}

\* The process has ended after validate_config was called.
Ended == pc \in {"exited", "crashed"}
Validated == Ended /\ invoked

\* validate_config ran on a mapping document and a single rule record that
\* is a mapping.
OneRule ==
    /\ Validated
    /\ config_data.kind = "dict"
    /\ Len(rules_data) = 1
    /\ rules_data[1].mapping
TheRule == rules_data[1]
TheValue == config_data.items[TheRule.parameter]
Present == TheValue # Missing /\ TheValue # None

\* A bound that is absent or a number.
Numeric(bound) == bound = None \/ bound.kind \in {"int", "float"}
BelowMin == TheRule.min # None /\ TheValue.half < TheRule.min.half
AboveMax == TheRule.max # None /\ TheValue.half > TheRule.max.half

\* The kinds the specification's data model accepts for each rule type
\* (section 4.1, step 2): Boolean is a kind of its own.
KindAccepted(type, value) ==
    CASE type = "integer" -> value.kind = "int"
      [] type = "float" -> value.kind \in {"int", "float"}
      [] type = "string" -> value.kind = "str"
      [] type = "boolean" -> value.kind = "bool"
      [] type = "list" -> value.kind = "list"
      [] OTHER -> TRUE

\* ----------------------------------------------------------------- claims

\* C1: on every mapping document (the empty one included) and every rule
\* list (the empty one included), validate_config returns True if and only
\* if no rule produced an Error diagnostic.
C1_VerdictIffNoRuleError ==
    (invoked /\ config_data.kind = "dict" /\ verdict \in {"True", "False"})
        => (verdict = "True" <=> ~HasError(RuleDiagnostics))

\* C2: a rule whose parameter the document lacks (the empty document
\* included) logs exactly one Warning and no Error, and the verdict is True.
C2_MissingParameterOnlyWarns ==
    (OneRule /\ TheValue = Missing)
        => /\ verdict = "True"
           /\ Count(ValidateDiagnostics, "NotFound") = 1
           /\ ~HasError(ValidateDiagnostics)

\* C3: a boolean value under an "integer" rule, and an integer value under a
\* "boolean" rule, fail with a TypeMismatch Error and a False verdict.
C3_BooleanIsNotInteger ==
    (OneRule /\ (\/ TheRule.type = "integer" /\ TheValue.kind = "bool"
                 \/ TheRule.type = "boolean" /\ TheValue.kind = "int"))
        => /\ verdict = "False"
           /\ Count(ValidateDiagnostics, "TypeMismatch") = 1

\* A rule record validate_config cannot evaluate on this document: one that
\* is no mapping, or one whose min or max cannot be compared with the value
\* that reached the range check.
Malformed(config, rule) ==
    \/ ~rule.mapping
    \/ /\ config.kind = "dict"
       /\ rule.type \in {"integer", "float"}
       /\ config.items[rule.parameter].kind \in {"int", "float", "bool"}
       /\ ~TypeCheckFails(rule.type, config.items[rule.parameter])
       /\ ~Numeric(rule.min) \/ ~Numeric(rule.max)
MalformedAt == {k \in 1..Len(rules_data) : Malformed(config_data, rules_data[k])}

\* C4: with a malformed rule record in the rule list (and a non-empty
\* mapping document), validate_config raises nothing: it returns False, each
\* malformed record has produced one Error, and every rule was evaluated.
C4_MalformedRuleIsCaught ==
    (Validated /\ config_data.kind = "dict" /\ Truthy(config_data) /\ MalformedAt # {})
        => /\ pc # "crashed"
           /\ verdict = "False"
           /\ i = Len(rules_data) + 1
           /\ Count(ValidateDiagnostics, "Fault") >= Cardinality(MalformedAt)

\* The diagnostics of the first n rules, in rule order.
RECURSIVE DiagsUpTo(_, _, _)
DiagsUpTo(config, rules, n) ==
    IF n = 0 THEN <<>>
    ELSE DiagsUpTo(config, rules, n - 1) \o ValidateRule(config, rules[n])
AllMappings(rules) == \A k \in 1..Len(rules) : rules[k].mapping

\* C5: on a non-empty document and a list of well-formed rules, the loop is
\* at rule i exactly when the diagnostics of rules 1..i-1 have been logged,
\* in rule order, whatever failed among them; and validate_config returns
\* only after the last rule.
C5_EveryRuleEvaluatedInOrder ==
    (pc \in {"loop", "report", "exited"} /\ Truthy(config_data)
        /\ rules_data # <<>> /\ AllMappings(rules_data))
        => /\ i \in 1..(Len(rules_data) + 1)
           /\ ValidateDiagnostics = DiagsUpTo(config_data, rules_data, i - 1)
           /\ pc \in {"report", "exited"} => i = Len(rules_data) + 1
C5_Witness ==
    /\ pc = "exited"
    /\ Truthy(config_data)
    /\ Len(rules_data) >= 2
    /\ AllMappings(rules_data)
    /\ HasError(ValidateRule(config_data, rules_data[1]))
    /\ ValidateRule(config_data, rules_data[2]) # <<>>
    /\ ValidateDiagnostics = DiagsUpTo(config_data, rules_data, Len(rules_data))

\* C6: a present value whose kind the rule's declared type does not accept
\* produces exactly one diagnostic, the TypeMismatch Error, and no range
\* diagnostic.
C6_MismatchSkipsRangeCheck ==
    (OneRule /\ Present /\ TheRule.type \in Types /\ ~KindAccepted(TheRule.type, TheValue))
        => /\ Len(ValidateDiagnostics) = 1
           /\ ValidateDiagnostics[1].kind = "TypeMismatch"
           /\ ValidateDiagnostics[1].severity = "ERROR"

\* C7: for an "integer" or "float" rule with numeric bounds whose value
\* passed the type check, "less than minimum" is logged iff min is present
\* and value < min, "greater than maximum" iff max is present and
\* value > max, each at most once and nothing else.
C7_BoundsCheckedIndependently ==
    (OneRule /\ Present /\ TheRule.type \in {"integer", "float"}
        /\ Numeric(TheRule.min) /\ Numeric(TheRule.max)
        /\ "TypeMismatch" \notin Kinds(ValidateDiagnostics))
        => /\ Count(ValidateDiagnostics, "BelowMin") = (IF BelowMin THEN 1 ELSE 0)
           /\ Count(ValidateDiagnostics, "AboveMax") = (IF AboveMax THEN 1 ELSE 0)
           /\ Kinds(ValidateDiagnostics) \subseteq {"BelowMin", "AboveMax"}
           /\ verdict = (IF BelowMin \/ AboveMax THEN "False" ELSE "True")
C7_Witness ==
    /\ OneRule /\ Present /\ TheRule.type \in {"integer", "float"}
    /\ Numeric(TheRule.min) /\ Numeric(TheRule.max)
    /\ TheRule.max.half < TheValue.half /\ TheValue.half < TheRule.min.half
    /\ Len(ValidateDiagnostics) = 2

\* C8: an integer value under a "float" rule with numeric bounds logs no
\* TypeMismatch, and logs a range violation exactly when it is below min or
\* above max.
C8_IntegerSatisfiesFloat ==
    (OneRule /\ TheRule.type = "float" /\ TheValue.kind = "int"
        /\ Numeric(TheRule.min) /\ Numeric(TheRule.max))
        => /\ "TypeMismatch" \notin Kinds(ValidateDiagnostics)
           /\ ("BelowMin" \in Kinds(ValidateDiagnostics)) <=> BelowMin
           /\ ("AboveMax" \in Kinds(ValidateDiagnostics)) <=> AboveMax
C8_Witness ==
    /\ OneRule /\ TheRule.type = "float" /\ TheValue.kind = "int"
    /\ TheRule.min.kind = "float" /\ TheValue.half < TheRule.min.half
    /\ Kinds(ValidateDiagnostics) = {"BelowMin"}

\* The rule list rearranged by the permutation f of its positions.
Permuted(rules, f) == [k \in 1..Len(rules) |-> rules[f[k]]]

\* C9: on a mapping document, validating any permutation of the rule list
\* gives the verdict and the set of (parameter, severity, kind) diagnostics
\* of the run that took place.
C9_OrderIndependent ==
    (Validated /\ config_data.kind = "dict") =>
        \A f \in Permutations(1..Len(rules_data)) :
            LET other == validate_config(config_data, Permuted(rules_data, f))
            IN  /\ other.verdict = verdict
                /\ Tuples(other.diags) = Tuples(ValidateDiagnostics)

\* C10: main exits with 0 iff both loads succeeded and validation logged no
\* Error; it exits with 1 otherwise; and validate_config is never called
\* after a failed load (stated for the runs whose document is a mapping or
\* null, or was never loaded).
C10_ExitCode ==
    (Ended /\ config_data.kind # "list")
        => /\ exit_code \in {0, 1}
           /\ exit_code = 0 <=>
                (config_loaded /\ rules_loaded /\ invoked /\ ~HasError(ValidateDiagnostics))
           /\ ~(config_loaded /\ rules_loaded) => ~invoked

====
